---- MODULE Spec2Model ----
(***************************************************************************)
(* FlaskApiSpec (flask_apispec/extension.py): the registration coordinator *)
(* with its deferred queue, attached to one Flask application.            *)
(*                                                                         *)
(* Every method of the class is an operator from the program state (a     *)
(* record S) and the call's arguments to an outcome record                *)
(*     [S |-> state after the call, err |-> exception raised or "ok",     *)
(*      ran |-> the _register executions made, in order].                 *)
(* A Python exception leaves every assignment made before it in place, so *)
(* an outcome with err # "ok" still carries the state reached so far.     *)
(***************************************************************************)
EXTENDS Integers, Sequences

\* ---------------------------------------------------------------- bounds
\* Longest deferred queue on which register() is still called.
MaxRegister == 2
\* Most register() calls made in all, where two coordinators act.
MaxRegisterTwo == 1
\* Longest deferred queue register_existing_resources() may produce.
MaxQueue == 7

\* -------------------------------------------------------------- constants
None == "None"
Absent == "<absent>"
OK == "ok"

\* The coordinator instances and the one application they attach to.
Coords == {"A", "B"}
TheApp == "app"

\* Name of the blueprint built by make_blueprint().
DefaultBlueprint == "flask-apispec"
\* The blueprint an application may supply in APISPEC_BLUEPRINT instead.
CfgBlueprints == {"swag1"}

\* The pre-built document an application may carry in APISPEC_SPEC.
ConfigSpec == "APISPEC_SPEC"

DefaultJsonUrl == "/swagger/"
DefaultUiUrl == "/swagger-ui/"
CustomJsonUrl == "/swagger.json"
CustomUiUrl == "/swagger-ui.html"

\* app.config, the options fixed when the application is built: a key is
\* absent, or holds a value ("" stands for any falsy value).
FixedConfigs ==
  [APISPEC_SPEC : {Absent, ConfigSpec},
   APISPEC_SWAGGER_URL : {Absent, "", CustomJsonUrl},
   APISPEC_SWAGGER_UI_URL : {Absent, "", CustomUiUrl}]

\* dict.get(key, default)
ConfigGet(cfg, key, default) == IF cfg[key] = Absent THEN default ELSE cfg[key]

\* Python truthiness of a configuration value.
Truthy(v) == v \notin {"", None}

\* ------------------------------------------------- the application's views
\* Registration targets: functions (types.FunctionType) and a resource class
\* (ResourceMeta); any other target, such as the bound methods
\* send_static_file, swagger_json and swagger_ui, is neither.
FunctionTargets == {"get_band", "band", "list_labels"}
ResourceTargets == {"BandResource"}

\* target.__name__.lower()
NameLower(target) ==
  CASE target = "get_band" -> "get_band"
    [] target = "band" -> "band"
    [] target = "BandResource" -> "bandresource"
    [] target = "list_labels" -> "list_labels"
    [] OTHER -> target

\* Werkzeug rule template -> OpenAPI path template.
RulePath(rule) ==
  CASE rule = "/bands/<band_id>/" -> "/bands/{band_id}/"
    [] rule = "/albums/<album_id>/" -> "/albums/{album_id}/"
    [] OTHER -> rule

\* The routing table the application was built with: its static route, a
\* function view, and the view function of BandResource.as_view('band').
\* An endpoint name is the sequence of its dot-separated components.
UserViews ==
  << [name |-> <<"static">>, target |-> "send_static_file"],
     [name |-> <<"get_band">>, target |-> "get_band"],
     [name |-> <<"band">>, target |-> "band"] >>
UserRules ==
  { [rule |-> "/static/<path:filename>", endpoint |-> <<"static">>],
    [rule |-> "/bands/<band_id>/", endpoint |-> <<"get_band">>],
    [rule |-> "/albums/<album_id>/", endpoint |-> <<"band">>] }

\* A further route an application may have: a function registered under an
\* endpoint that is not its name (add_url_rule('/labels/', endpoint='labels',
\* view_func=list_labels)), which the converter cannot look up by name.
LabelsView == [name |-> <<"labels">>, target |-> "list_labels"]
LabelsRule == [rule |-> "/labels/", endpoint |-> <<"labels">>]

\* The arguments application code passes to register().
Calls ==
  { [target |-> "get_band", endpoint |-> None, blueprint |-> None],
    [target |-> "BandResource", endpoint |-> "band", blueprint |-> None],
    [target |-> "BandResource", endpoint |-> None, blueprint |-> None],
    [target |-> "send_static_file", endpoint |-> None, blueprint |-> None] }

\* ------------------------------------------------------------------ state
VARIABLES
  app,                \* self.app               per coordinator
  spec,               \* self.spec              per coordinator (a document id)
  blueprint,          \* self.blueprint         per coordinator
  view_converter,     \* self.view_converter    per coordinator
  resource_converter, \* self.resource_converter
  _deferred,          \* self._deferred         per coordinator
  runs,               \* history: per queued call, how often _register ran it
  paths,              \* document id -> its _paths
  blueprints,         \* app.blueprints (names registered)
  url_map,            \* app.url_map
  view_functions,     \* app.view_functions, in insertion order
  config,             \* app.config, the options fixed with the application
  last                \* history: the last call made and its outcome

vars == <<app, spec, blueprint, view_converter, resource_converter, _deferred,
          runs, paths, blueprints, url_map, view_functions, config, last>>

State ==
  [app |-> app, spec |-> spec, blueprint |-> blueprint,
   view_converter |-> view_converter, resource_converter |-> resource_converter,
   _deferred |-> _deferred, runs |-> runs, paths |-> paths,
   blueprints |-> blueprints, url_map |-> url_map,
   view_functions |-> view_functions]

Outcome(S, err, ran) == [S |-> S, err |-> err, ran |-> ran]

\* Document ids: the configured one, and the document each coordinator
\* last built with make_apispec() (the one it built before is dropped).
DocIds == {ConfigSpec} \cup Coords

\* ------------------------------------------------------------- converters
\* Converter.convert (flask_apispec/apidoc.py): the endpoint is the one
\* given or the target's lower-cased name, prefixed by the blueprint when
\* one is given; the rules registered for it become path descriptors; no
\* rule for the endpoint is a lookup error.
convert(S, call) ==
  LET ep == IF call.endpoint # None THEN call.endpoint ELSE NameLower(call.target)
      name == IF call.blueprint # None THEN <<call.blueprint, ep>> ELSE <<ep>>
      rules == {r \in S.url_map : r.endpoint = name}
  IN IF rules = {} THEN [err |-> "LookupError", paths |-> {}]
     ELSE [err |-> OK, paths |-> {RulePath(r.rule) : r \in rules}]

\* _register with the final `else: raise TypeError()` lost: whatever is not a
\* function goes to the resource converter.
_register_untyped(S, c, call) ==
  LET converter ==
        IF call.target \in FunctionTargets THEN S.view_converter[c]
        ELSE S.resource_converter[c]
      r == convert(S, call)
  IN IF converter = None
       THEN Outcome(S, "AttributeError", <<>>)
     ELSE IF r.err # OK
       THEN Outcome(S, r.err, <<>>)
     ELSE Outcome([S EXCEPT !.paths[S.spec[c]] = @ \cup r.paths], OK, <<>>)

\* ------------------------------------------------------------ _register
\* FlaskApiSpec._register: dispatch on the target's type, convert, and add
\* every path to self.spec.  A converter that is still None fails the
\* attribute access.
_register(S, c, call) ==
  LET converter ==
        IF call.target \in FunctionTargets THEN S.view_converter[c]
        ELSE S.resource_converter[c]
      r == convert(S, call)
  IN IF call.target \notin FunctionTargets \cup ResourceTargets
       THEN Outcome(S, "TypeError", <<>>)
     ELSE IF converter = None
       THEN Outcome(S, "AttributeError", <<>>)
     ELSE IF r.err # OK
       THEN Outcome(S, r.err, <<>>)
     ELSE Outcome([S EXCEPT !.paths[S.spec[c]] = @ \cup r.paths], OK, <<>>)

\* _defer that only queues, also on an attached coordinator.
_defer_queue_only(S, c, call) ==
  Outcome([S EXCEPT !._deferred[c] = Append(@, call), !.runs[c] = Append(@, 0)],
          OK, <<>>)

\* FlaskApiSpec._defer with callable = self._register: the bound call is
\* appended, and run at once when self.app is set.
_defer(S, c, call) ==
  LET S1 == [S EXCEPT !._deferred[c] = Append(@, call), !.runs[c] = Append(@, 0)]
      i == Len(S1._deferred[c])
      r == _register(S1, c, call)
  IN IF S1.app[c] # None
       THEN Outcome([r.S EXCEPT !.runs[c][i] = @ + 1], r.err,
                    <<[idx |-> i, err |-> r.err]>>)
       ELSE Outcome(S1, OK, <<>>)

\* FlaskApiSpec.register
register(S, c, call) == _defer(S, c, call)

\* ------------------------------------------------------------- attachment
\* make_apispec handing every coordinator one module-level document.
make_apispec_shared(S, c) == [doc |-> "A", S |-> S]

\* make_apispec(): a new, empty document; c names the one coordinator c
\* built last.
make_apispec(S, c) == [doc |-> c, S |-> [S EXCEPT !.paths[c] = {}]]

\* make_blueprint(): a new blueprint named 'flask-apispec', with a static
\* folder.
make_blueprint == DefaultBlueprint

\* Flask.register_blueprint as called by add_swagger_routes: a name that is
\* already registered is refused (ValueError; an AssertionError in Flask 1
\* for another blueprint object of that name); otherwise the blueprint's
\* static route (make_blueprint gives it a static folder, a configured
\* blueprint is taken to have none) and its recorded rules reach the
\* application under '<blueprint>.<endpoint>', in the order recorded.
RECURSIVE AddRules(_, _, _, _)
AddRules(S, name, recorded, i) ==
  IF i > Len(recorded) THEN S
  ELSE AddRules(
         [S EXCEPT
            !.url_map = @ \cup {[rule |-> recorded[i].rule,
                                 endpoint |-> <<name, recorded[i].endpoint>>]},
            !.view_functions = Append(@, [name |-> <<name, recorded[i].endpoint>>,
                                          target |-> recorded[i].view])],
         name, recorded, i + 1)

register_blueprint(S, name, recorded) ==
  LET static == IF name = DefaultBlueprint
                  THEN <<[rule |-> "/flask-apispec/static/<path:filename>",
                          endpoint |-> "static", view |-> "send_static_file"]>>
                  ELSE <<>>
  IN IF name \in S.blueprints
       THEN Outcome(S, "NameCollision", <<>>)
       ELSE Outcome(AddRules([S EXCEPT !.blueprints = @ \cup {name}],
                             name, static \o recorded, 1), OK, <<>>)

\* add_swagger_routes testing `is not None` instead of truthiness.
add_swagger_routes_not_none(S, c, cfg) ==
  LET json_url == ConfigGet(cfg, "APISPEC_SWAGGER_URL", DefaultJsonUrl)
      ui_url == ConfigGet(cfg, "APISPEC_SWAGGER_UI_URL", DefaultUiUrl)
      json == IF json_url # None
                THEN <<[rule |-> json_url, endpoint |-> "swagger-json",
                        view |-> "swagger_json"]>>
                ELSE <<>>
      ui == IF ui_url # None
              THEN <<[rule |-> ui_url, endpoint |-> "swagger-ui",
                      view |-> "swagger_ui"]>>
              ELSE <<>>
  IN register_blueprint(S, S.blueprint[c], json \o ui)

\* FlaskApiSpec.add_swagger_routes
add_swagger_routes(S, c, cfg) ==
  LET json_url == ConfigGet(cfg, "APISPEC_SWAGGER_URL", DefaultJsonUrl)
      ui_url == ConfigGet(cfg, "APISPEC_SWAGGER_UI_URL", DefaultUiUrl)
      json == IF Truthy(json_url)
                THEN <<[rule |-> json_url, endpoint |-> "swagger-json",
                        view |-> "swagger_json"]>>
                ELSE <<>>
      ui == IF Truthy(ui_url)
              THEN <<[rule |-> ui_url, endpoint |-> "swagger-ui",
                      view |-> "swagger_ui"]>>
              ELSE <<>>
  IN register_blueprint(S, S.blueprint[c], json \o ui)

\* The drain taking the queue from its end (a stack instead of a queue).
RECURSIVE RunDeferredLifo(_, _, _, _)
RunDeferredLifo(S, c, i, ran) ==
  IF i > Len(S._deferred[c]) THEN Outcome(S, OK, ran)
  ELSE LET j == Len(S._deferred[c]) + 1 - i
           r == _register(S, c, S._deferred[c][j])
           S2 == [r.S EXCEPT !.runs[c][j] = @ + 1]
           ran2 == Append(ran, [idx |-> j, err |-> r.err])
       IN IF r.err # OK THEN Outcome(S2, r.err, ran2)
          ELSE RunDeferredLifo(S2, c, i + 1, ran2)

\* The drain isolating each call: it goes on after a failure and raises the
\* first error at the end.
RECURSIVE RunDeferredIsolated(_, _, _, _)
RunDeferredIsolated(S, c, i, ran) ==
  LET errs == {k \in 1..Len(ran) : ran[k].err # OK}
  IN IF i > Len(S._deferred[c])
       THEN Outcome(S, IF errs = {} THEN OK
                       ELSE ran[CHOOSE k \in errs : \A m \in errs : k <= m].err, ran)
     ELSE LET r == _register(S, c, S._deferred[c][i])
          IN RunDeferredIsolated([r.S EXCEPT !.runs[c][i] = @ + 1], c, i + 1,
                                 Append(ran, [idx |-> i, err |-> r.err]))

\* The loop `for deferred in self._deferred: deferred()` of init_app, from
\* queue position i on; an exception leaves the loop.
RECURSIVE RunDeferred(_, _, _, _)
RunDeferred(S, c, i, ran) ==
  IF i > Len(S._deferred[c]) THEN Outcome(S, OK, ran)
  ELSE LET r == _register(S, c, S._deferred[c][i])
           S2 == [r.S EXCEPT !.runs[c][i] = @ + 1]
           ran2 == Append(ran, [idx |-> i, err |-> r.err])
       IN IF r.err # OK THEN Outcome(S2, r.err, ran2)
          ELSE RunDeferred(S2, c, i + 1, ran2)

\* FlaskApiSpec.init_app(app), with cfg the application's configuration.
init_app(S, c, cfg) ==
  LET S1 == [S EXCEPT !.app[c] = TheApp]
      cfgspec == ConfigGet(cfg, "APISPEC_SPEC", None)
      made == make_apispec(S1, c)
      S2 == IF Truthy(cfgspec) THEN [S1 EXCEPT !.spec[c] = cfgspec]
            ELSE [made.S EXCEPT !.spec[c] = made.doc]
      cfgbp == ConfigGet(cfg, "APISPEC_BLUEPRINT", None)
      S3 == [S2 EXCEPT !.blueprint[c] =
                         IF Truthy(cfgbp) THEN cfgbp ELSE make_blueprint]
      routes == add_swagger_routes(S3, c, cfg)
      S4 == [routes.S EXCEPT !.resource_converter[c] = "ResourceConverter",
                             !.view_converter[c] = "ViewConverter"]
  IN IF routes.err # OK THEN Outcome(routes.S, routes.err, <<>>)
     ELSE RunDeferred(S4, c, 1, <<>>)

\* ------------------------------------------------------------ bulk scan
\* name.split('.') unpacked into (blueprint_name, _): exactly two
\* components, else ValueError and blueprint_name = None.
BlueprintOf(name) == IF Len(name) = 2 THEN name[1] ELSE None

\* The scan without its `except TypeError: pass`.
RECURSIVE ScanViewsStrict(_, _, _, _, _)
ScanViewsStrict(S, c, views, i, ran) ==
  IF i > Len(views) THEN Outcome(S, OK, ran)
  ELSE LET r == register(S, c, [target |-> views[i].target, endpoint |-> None,
                                blueprint |-> BlueprintOf(views[i].name)])
       IN IF r.err = OK
            THEN ScanViewsStrict(r.S, c, views, i + 1, ran \o r.ran)
            ELSE Outcome(r.S, r.err, ran \o r.ran)

\* The loop of register_existing_resources over view_functions.items(),
\* from position i on: TypeError is passed over, anything else leaves.
RECURSIVE ScanViews(_, _, _, _, _)
ScanViews(S, c, views, i, ran) ==
  IF i > Len(views) THEN Outcome(S, OK, ran)
  ELSE LET r == register(S, c, [target |-> views[i].target, endpoint |-> None,
                                blueprint |-> BlueprintOf(views[i].name)])
       IN IF r.err \in {OK, "TypeError"}
            THEN ScanViews(r.S, c, views, i + 1, ran \o r.ran)
            ELSE Outcome(r.S, r.err, ran \o r.ran)

\* FlaskApiSpec.register_existing_resources
register_existing_resources(S, c) ==
  IF S.app[c] = None THEN Outcome(S, "AttributeError", <<>>)
  ELSE ScanViews(S, c, S.view_functions, 1, <<>>)

\* --------------------------------------------------------- specification
\* FlaskApiSpec.__init__ with app = None, for each instance, next to an
\* application that has its routes and its configuration.
InitWith(views, rules) ==
  /\ config \in FixedConfigs
  /\ app = [c \in Coords |-> None]
  /\ spec = [c \in Coords |-> None]
  /\ blueprint = [c \in Coords |-> None]
  /\ view_converter = [c \in Coords |-> None]
  /\ resource_converter = [c \in Coords |-> None]
  /\ _deferred = [c \in Coords |-> <<>>]
  /\ runs = [c \in Coords |-> <<>>]
  /\ paths = [d \in DocIds |-> {}]
  /\ blueprints = {}
  /\ url_map = rules
  /\ view_functions = views
  /\ last = [op |-> "__init__", c |-> None, err |-> OK, ran |-> <<>>]

Apply(op, c, R) ==
  /\ app' = R.S.app
  /\ spec' = R.S.spec
  /\ blueprint' = R.S.blueprint
  /\ view_converter' = R.S.view_converter
  /\ resource_converter' = R.S.resource_converter
  /\ _deferred' = R.S._deferred
  /\ runs' = R.S.runs
  /\ paths' = R.S.paths
  /\ blueprints' = R.S.blueprints
  /\ url_map' = R.S.url_map
  /\ view_functions' = R.S.view_functions
  /\ last' = [op |-> op, c |-> c, err |-> R.err, ran |-> R.ran]

Register(c, call) ==
  /\ Len(_deferred[c]) < MaxRegister
  /\ Apply("register", c, register(State, c, call))
  /\ UNCHANGED config

\* init_app(app): the application's configuration is its fixed options and
\* the blueprint option bp, which application code sets anew before an
\* attachment (app.config['APISPEC_BLUEPRINT'] = ...).
AppConfig(bp) ==
  [k \in DOMAIN config \cup {"APISPEC_BLUEPRINT"} |->
     IF k = "APISPEC_BLUEPRINT" THEN bp ELSE config[k]]

InitApp(c, bp) ==
  /\ Apply("init_app", c, init_app(State, c, AppConfig(bp)))
  /\ UNCHANGED config

RegisterExistingResources(c) ==
  /\ Len(_deferred[c]) + Len(view_functions) <= MaxQueue
  /\ Apply("register_existing_resources", c, register_existing_resources(State, c))
  /\ UNCHANGED config

\* One coordinator, every operation; the application has the labels route
\* or not.
Init ==
  \/ InitWith(UserViews, UserRules)
  \/ InitWith(Append(UserViews, LabelsView), UserRules \cup {LabelsRule})

Next ==
  \/ \E call \in Calls : Register("A", call)
  \/ \E bp \in {Absent} \cup CfgBlueprints : InitApp("A", bp)
  \/ RegisterExistingResources("A")

Spec == Init /\ [][Next]_vars

\* Two coordinators on the one application, registering and attaching.
RegisterTwo(c, call) ==
  /\ Len(_deferred["A"]) + Len(_deferred["B"]) < MaxRegisterTwo
  /\ Apply("register", c, register(State, c, call))
  /\ UNCHANGED config

InitAppTwo(c, bp) ==
  /\ Apply("init_app", c, init_app(State, c, AppConfig(bp)))
  /\ UNCHANGED config

NextTwo ==
  \/ \E c \in Coords, call \in Calls : RegisterTwo(c, call)
  \/ \E c \in Coords, bp \in {Absent} \cup CfgBlueprints : InitAppTwo(c, bp)

InitTwo == InitWith(UserViews, UserRules)

SpecTwo == InitTwo /\ [][NextTwo]_vars

\* ================================================================ claims
BlueprintOptions == {Absent} \cup CfgBlueprints

\* The document of coordinator c in state S.
Doc(S, c) == IF S.spec[c] = None THEN {} ELSE S.paths[S.spec[c]]

\* Queue positions of the executions ran, in the order they were made.
Positions(ran) == [i \in 1..Len(ran) |-> ran[i].idx]

\* The drain of the last init_app was reached (add_swagger_routes returned).
DrainReached == last.op = "init_app" /\ (last.err = OK \/ last.ran # <<>>)

\* Positions of the last call's executions that raised.
Failed == {i \in 1..Len(last.ran) : last.ran[i].err # OK}

\* ---------------------------------------------------------------- C1
\* C1: on a coordinator that is not attached yet, and whose queued calls (if
\* any) all run without raising, register(k) followed by init_app leaves the
\* same document as init_app followed by register(k), for every call k and
\* every configuration of the application.
C1_DeferredOrderIndependent ==
  \A c \in Coords, k \in Calls, bp \in BlueprintOptions :
    LET attachFirst == init_app(State, c, AppConfig(bp))
        deferFirst == register(State, c, k)
        a == register(attachFirst.S, c, k)
        b == init_app(deferFirst.S, c, AppConfig(bp))
    IN (app[c] = None /\ ~(attachFirst.err # OK /\ attachFirst.ran # <<>>))
         => Doc(a.S, c) = Doc(b.S, c)

\* A call registered before attachment has been run by init_app and its path
\* is in the document.
C1_Witness ==
  /\ last.op = "init_app" /\ last.err = OK /\ Len(last.ran) = 1
  /\ runs[last.c] = <<1>>
  /\ _deferred[last.c][1].target = "get_band"
  /\ "/bands/{band_id}/" \in Doc(State, last.c)

\* ---------------------------------------------------------------- C2
\* C2 as stated: an init_app that reaches the drain executes every queued
\* call, in queue order.
C2_DrainRunsEveryCall ==
  DrainReached =>
    Positions(last.ran) = [i \in 1..Len(_deferred[last.c]) |-> i]

\* C2 amended: an init_app that reaches the drain executes the queued calls
\* in queue order from the first one on, and stops only at the end of the
\* queue or after a call that raised.
C2_DrainFifoUntilFailure ==
  DrainReached =>
    /\ Positions(last.ran) = [i \in 1..Len(last.ran) |-> i]
    /\ \A i \in 1..(Len(last.ran) - 1) : last.ran[i].err = OK
    /\ \/ Len(last.ran) = Len(_deferred[last.c])
       \/ last.ran[Len(last.ran)].err # OK

\* A drain that ran two queued calls, one after the other.
C2_Witness ==
  /\ DrainReached /\ last.err = OK
  /\ Len(last.ran) >= 2
  /\ runs[last.c] = [i \in 1..Len(_deferred[last.c]) |-> 1]

\* ---------------------------------------------------------------- C3
\* C3 as stated: no register call's conversion is executed more than once,
\* whatever sequence of register and init_app calls is made.
C3_ExecutedAtMostOnce ==
  \A c \in Coords : \A i \in 1..Len(runs[c]) : runs[c][i] <= 1

\* ---------------------------------------------------------------- C4
\* The paths the calls registered on c produce.
RegisteredOn(c) ==
  UNION {convert(State, _deferred[c][i]).paths : i \in 1..Len(_deferred[c])}

\* Another coordinator holds the same document as c.
SharesDocument(c) ==
  \E d \in Coords \ {c} : spec[d] # None /\ spec[d] = spec[c]

\* C4 as stated: once both coordinators are attached, converters built,
\* every path in a coordinator's document was registered on that
\* coordinator, however the application is configured.
C4_DocumentsIndependent ==
  (\A c \in Coords : view_converter[c] # None /\ resource_converter[c] # None)
    => \A c \in Coords : Doc(State, c) \subseteq RegisteredOn(c)

\* C4 amended: two coordinators never hold the same document, and every
\* path in a coordinator's document was registered on that coordinator,
\* unless the application supplies a pre-built document in APISPEC_SPEC
\* (which every coordinator attached to it then shares).
C4_IndependentUnlessConfigured ==
  config.APISPEC_SPEC = Absent =>
    \A c \in Coords :
      /\ ~SharesDocument(c)
      /\ Doc(State, c) \subseteq RegisteredOn(c)

\* Both coordinators are attached with converters, each with a document of
\* its own, and the path registered on A is in A's document only.
C4_Witness ==
  /\ view_converter["A"] # None /\ view_converter["B"] # None
  /\ spec["A"] = "A" /\ spec["B"] = "B"
  /\ "/bands/{band_id}/" \in paths["A"]
  /\ paths["B"] = {}

\* ---------------------------------------------------------------- C5
BadCalls == {k \in Calls : k.target \notin FunctionTargets \cup ResourceTargets}

\* C5: register with a target that is neither a function nor a resource
\* class changes no document; on an attached coordinator it raises TypeError
\* from register itself; on a coordinator not yet attached register returns,
\* and the init_app whose drain reaches the call raises TypeError, its
\* document being the one it would have without that call.
C5_BadTargetTypeError ==
  \A c \in Coords, k \in BadCalls :
    LET r == register(State, c, k)
        n == Len(r.S._deferred[c])
    IN /\ r.S.paths = paths
       /\ app[c] # None => r.err = "TypeError"
       /\ app[c] = None =>
            /\ r.err = OK
            /\ \A bp \in BlueprintOptions :
                 LET d == init_app(r.S, c, AppConfig(bp))
                     without == init_app(State, c, AppConfig(bp))
                 IN (d.ran # <<>> /\ d.ran[Len(d.ran)].idx = n)
                      => /\ d.err = "TypeError"
                         /\ Doc(d.S, c) = Doc(without.S, c)

\* An init_app whose drain ran a call with such a target, made before
\* attachment, and raised its TypeError.
C5_Witness ==
  /\ last.op = "init_app" /\ last.err = "TypeError"
  /\ last.ran # <<>>
  /\ _deferred[last.c][last.ran[Len(last.ran)].idx] \in BadCalls
  /\ runs[last.c][last.ran[Len(last.ran)].idx] = 1

\* ---------------------------------------------------------------- C6
\* The paths of the rules registered for view v.
ViewPaths(v) == {RulePath(r.rule) : r \in {x \in url_map : x.endpoint = v.name}}

Qualifies(target) == target \in FunctionTargets \cup ResourceTargets

\* C6: after register_existing_resources on an attached coordinator, the
\* views were tried in the order of view_functions; a view that is neither a
\* function nor a resource class raised TypeError, which never reaches the
\* caller and never ends the scan; any other error ends the scan and is the
\* error the caller gets; and a scan that returns has tried every view and
\* left the paths of every function or resource view in the document.
C6_ScanSkipsUsageErrors ==
  (last.op = "register_existing_resources" /\ app[last.c] # None) =>
    LET c == last.c
        n == Len(last.ran)
    IN /\ last.err # "TypeError"
       /\ n <= Len(view_functions)
       /\ \A i \in 1..n :
            /\ _deferred[c][last.ran[i].idx].target = view_functions[i].target
            /\ ~Qualifies(view_functions[i].target) => last.ran[i].err = "TypeError"
            /\ Qualifies(view_functions[i].target) => last.ran[i].err # "TypeError"
            /\ i < n => last.ran[i].err \in {OK, "TypeError"}
       /\ last.err = OK =>
            /\ n = Len(view_functions)
            /\ \A i \in 1..n :
                 Qualifies(view_functions[i].target)
                   => ViewPaths(view_functions[i]) \subseteq Doc(State, c)
       /\ last.err # OK => (n >= 1 /\ last.ran[n].err = last.err)

\* A scan that returned normally: the static route was passed over, the two
\* views after it were registered.
C6_Witness ==
  /\ last.op = "register_existing_resources" /\ last.err = OK
  /\ Len(last.ran) >= 3
  /\ last.ran[1].err = "TypeError"
  /\ last.ran[2].err = OK
  /\ {"/bands/{band_id}/", "/albums/{album_id}/"} \subseteq Doc(State, last.c)

\* ---------------------------------------------------------------- C7
\* C7 as stated: when a queued call raises during the drain, init_app raises
\* that error and every call queued after it has still been executed.
C7_DrainContinuesAfterFailure ==
  (DrainReached /\ Failed # {}) =>
    \E f \in Failed :
      /\ last.err = last.ran[f].err
      /\ \A j \in (last.ran[f].idx + 1)..Len(_deferred[last.c]) :
           \E i \in 1..Len(last.ran) : last.ran[i].idx = j

\* C7 amended: when a queued call raises during the drain, init_app raises
\* that error and the drain ends there: no call queued after the failing one
\* is executed by that init_app.
C7_DrainAbortsAtFailure ==
  (DrainReached /\ Failed # {}) =>
    \E f \in Failed :
      /\ Failed = {f}
      /\ last.err = last.ran[f].err
      /\ \A i \in 1..Len(last.ran) : last.ran[i].idx <= last.ran[f].idx

\* A drain in which a call raised while another call was queued after it.
C7_Witness ==
  /\ DrainReached /\ Failed # {}
  /\ \E f \in Failed : last.ran[f].idx < Len(_deferred[last.c])

\* ---------------------------------------------------------------- C8
\* The URLs registered for endpoint ep of blueprint name.
RoutesOf(name, ep) == {r.rule : r \in {x \in url_map : x.endpoint = <<name, ep>>}}

\* C8 as stated: for every blueprint a coordinator registered, each of the
\* two routes is absent when its URL option is empty or absent, and is at
\* exactly the configured URL otherwise.
C8_EmptyOrAbsentSuppresses ==
  \A name \in blueprints :
    /\ RoutesOf(name, "swagger-json") =
         IF config.APISPEC_SWAGGER_URL \in {"", Absent} THEN {}
         ELSE {config.APISPEC_SWAGGER_URL}
    /\ RoutesOf(name, "swagger-ui") =
         IF config.APISPEC_SWAGGER_UI_URL \in {"", Absent} THEN {}
         ELSE {config.APISPEC_SWAGGER_UI_URL}

\* C8 amended: for every blueprint a coordinator registered, each of the two
\* routes is decided by its own URL option: an empty option leaves the route
\* out, an absent option puts it at the default path (/swagger/ resp.
\* /swagger-ui/), any other value puts it at exactly that URL and nowhere
\* else.
C8_OnlyEmptySuppresses ==
  \A name \in blueprints :
    /\ RoutesOf(name, "swagger-json") =
         IF config.APISPEC_SWAGGER_URL = "" THEN {}
         ELSE IF config.APISPEC_SWAGGER_URL = Absent THEN {DefaultJsonUrl}
         ELSE {config.APISPEC_SWAGGER_URL}
    /\ RoutesOf(name, "swagger-ui") =
         IF config.APISPEC_SWAGGER_UI_URL = "" THEN {}
         ELSE IF config.APISPEC_SWAGGER_UI_URL = Absent THEN {DefaultUiUrl}
         ELSE {config.APISPEC_SWAGGER_UI_URL}

\* An attachment under a custom JSON URL and an empty UI URL: the JSON route
\* is at the custom URL, there is no UI route.
C8_Witness ==
  /\ last.op = "init_app" /\ last.err = OK
  /\ config.APISPEC_SWAGGER_URL = CustomJsonUrl
  /\ config.APISPEC_SWAGGER_UI_URL = ""
  /\ RoutesOf(blueprint[last.c], "swagger-json") = {CustomJsonUrl}
  /\ RoutesOf(blueprint[last.c], "swagger-ui") = {}

\* ---------------------------------------------------------------- C9
\* C9 as stated: a coordinator whose app is set has its document, its
\* blueprint and both converters set.
C9_AttachedImpliesReady ==
  \A c \in Coords :
    app[c] # None =>
      /\ spec[c] # None
      /\ blueprint[c] # None
      /\ view_converter[c] # None
      /\ resource_converter[c] # None

\* ---------------------------------------------------------------- C10
\* C10 as stated: a register call that raises on an attached coordinator
\* changes neither the deferred queue nor any document.
C10_FailedRegisterLeavesNoTrace ==
  [][(/\ last'.op = "register"
      /\ last'.err # OK
      /\ app[last'.c] # None)
       => (_deferred' = _deferred /\ paths' = paths)]_vars

====
